---- MODULE Spec2Model ----
(***************************************************************************)
(* Model of the semantic extractor of ingreedy-rs (src/src/lib.rs): the    *)
(* walk over the pest parse tree that builds an Ingredient record.         *)
(*                                                                         *)
(* A parse-tree node (pest Pair<Rule>) is a record                         *)
(*     [rule |-> name of the Rule, text |-> as_str(), kids |-> into_inner()]*)
(* Texts are TLA+ strings; TLC evaluates Len, SubSeq and \o on strings.    *)
(*                                                                         *)
(* f64 amounts are modelled as non-negative extended rationals             *)
(*     [n |-> numerator, d |-> denominator]   in lowest terms,             *)
(* with 1/0 standing for +infinity and 0/0 for NaN.  The arithmetic is the *)
(* IEEE-754 one on these values with rounding left out (every value is     *)
(* exact) and without overflow of the exponent range.                      *)
(***************************************************************************)
EXTENDS Integers, Sequences, FiniteSets, TLC

(***************************************************************************)
(* Option<T> and Result<T, IngreedyError>                                  *)
(***************************************************************************)
None == <<>>
Some(x) == <<x>>

Ok(v) == [tag |-> "Ok", val |-> v]
Err(e) == [tag |-> "Err", err |-> e]
\* a panic (unwrap on None, index out of bounds, missing map key, panic!)
Panic == [tag |-> "Panic"]

WrongRule(pair, rule) == [kind |-> "WrongRule", found |-> pair.text, rule |-> rule]
ParseFloatError == [kind |-> "ParseFloatError"]
InnerRuleNoneError == [kind |-> "InnerRuleNoneError"]

(***************************************************************************)
(* f64 values                                                              *)
(***************************************************************************)
RECURSIVE GCD(_, _)
GCD(a, b) == IF b = 0 THEN a ELSE GCD(b, a % b)

Norm(n, d) ==
    IF d = 0 THEN (IF n = 0 THEN [n |-> 0, d |-> 0] ELSE [n |-> 1, d |-> 0])
    ELSE IF n = 0 THEN [n |-> 0, d |-> 1]
    ELSE [n |-> n \div GCD(n, d), d |-> d \div GCD(n, d)]

F(k) == [n |-> k, d |-> 1]
Inf == [n |-> 1, d |-> 0]
NaN == [n |-> 0, d |-> 0]
IsNaN(a) == a.n = 0 /\ a.d = 0
IsFinite(a) == a.d # 0

\* a * b : inf * 0 = NaN, inf * x = inf, NaN * x = NaN
FMul(a, b) == Norm(a.n * b.n, a.d * b.d)
\* a / b : x / 0 = inf, 0 / 0 = NaN, x / inf = 0, inf / inf = NaN
FDiv(a, b) == Norm(a.n * b.d, a.d * b.n)
\* a + b : NaN + x = NaN, inf + x = inf
FAdd(a, b) ==
    IF IsNaN(a) \/ IsNaN(b) THEN NaN
    ELSE IF a.d = 0 \/ b.d = 0 THEN Inf
    ELSE Norm(a.n * b.d + b.n * a.d, a.d * b.d)

(***************************************************************************)
(* str::parse::<f64> on texts over the alphabet of the model: the digits,  *)
(* ".", "/", " " and the letter "x".  Such a text parses iff it is made of *)
(* digits and at most one ".", with at least one digit.                    *)
(***************************************************************************)
Digits == <<"0", "1", "2", "3", "4", "5", "6", "7", "8", "9">>
CharAt(s, k) == SubSeq(s, k, k)
IsDigit(c) == \E k \in 1..10 : Digits[k] = c
DigitVal(c) == (CHOOSE k \in 1..10 : Digits[k] = c) - 1

RECURSIVE Pow10(_)
Pow10(k) == IF k = 0 THEN 1 ELSE 10 * Pow10(k - 1)

\* the digits of s read as one decimal integer, the "." skipped
RECURSIVE DigitsValue(_, _)
DigitsValue(s, acc) ==
    IF Len(s) = 0 THEN acc
    ELSE IF IsDigit(CharAt(s, 1))
         THEN DigitsValue(SubSeq(s, 2, Len(s)), 10 * acc + DigitVal(CharAt(s, 1)))
         ELSE DigitsValue(SubSeq(s, 2, Len(s)), acc)

ParseF64(s) ==
    LET dots == {k \in 1..Len(s) : CharAt(s, k) = "."}
        digs == {k \in 1..Len(s) : IsDigit(CharAt(s, k))}
    IN  IF /\ Cardinality(digs) >= 1
           /\ Cardinality(dots) <= 1
           /\ Cardinality(digs) + Cardinality(dots) = Len(s)
        THEN LET frac == IF dots = {} THEN 0
                         ELSE Len(s) - (CHOOSE k \in dots : TRUE)
             IN  Ok(Norm(DigitsValue(s, 0), Pow10(frac)))
        ELSE Err(ParseFloatError)

(***************************************************************************)
(* str::split('/') and str::trim                                           *)
(***************************************************************************)
RECURSIVE SplitSlash(_, _)
\* cur is the part being read; the result always has at least one part
SplitSlash(s, cur) ==
    IF Len(s) = 0 THEN <<cur>>
    ELSE IF CharAt(s, 1) = "/"
         THEN <<cur>> \o SplitSlash(SubSeq(s, 2, Len(s)), "")
         ELSE SplitSlash(SubSeq(s, 2, Len(s)), cur \o CharAt(s, 1))

RECURSIVE Trim(_)
Trim(s) ==
    IF Len(s) = 0 THEN s
    ELSE IF CharAt(s, 1) = " " THEN Trim(SubSeq(s, 2, Len(s)))
    ELSE IF CharAt(s, Len(s)) = " " THEN Trim(SubSeq(s, 1, Len(s) - 1))
    ELSE s

(***************************************************************************)
(* Lexical tables (lazy_static HashMaps, never written after construction) *)
(***************************************************************************)
NUMBER_VALUE ==
    [w \in {"a", "an", "one"} |-> F(1)] @@
    ("zero" :> F(0)) @@ ("two" :> F(2)) @@ ("three" :> F(3)) @@ ("four" :> F(4)) @@
    ("five" :> F(5)) @@ ("six" :> F(6)) @@ ("seven" :> F(7)) @@ ("eight" :> F(8)) @@
    ("nine" :> F(9)) @@ ("ten" :> F(10)) @@ ("eleven" :> F(11)) @@ ("twelve" :> F(12)) @@
    ("thirteen" :> F(13)) @@ ("fourteen" :> F(14)) @@ ("fifteen" :> F(15)) @@
    ("sixteen" :> F(16)) @@ ("seventeen" :> F(17)) @@ ("eighteen" :> F(18)) @@
    ("nineteen" :> F(19)) @@ ("twenty" :> F(20)) @@ ("thirty" :> F(30)) @@
    ("forty" :> F(40)) @@ ("fifty" :> F(50)) @@ ("sixty" :> F(60)) @@
    ("seventy" :> F(70)) @@ ("eighty" :> F(80)) @@ ("ninety" :> F(90))

\* a fraction glyph is written as its code point: "U+00BD" is the text of
\* the one-character string holding the glyph one half
UNICODE_FRACTION_VALUE ==
    ("U+00BC" :> FDiv(F(1), F(4))) @@ ("U+00BD" :> FDiv(F(1), F(2))) @@ ("U+00BE" :> FDiv(F(3), F(4))) @@
    ("U+2150" :> FDiv(F(1), F(7))) @@ ("U+2151" :> FDiv(F(1), F(9))) @@ ("U+2152" :> FDiv(F(1), F(10))) @@
    ("U+2153" :> FDiv(F(1), F(3))) @@ ("U+2154" :> FDiv(F(2), F(3))) @@ ("U+2155" :> FDiv(F(1), F(5))) @@
    ("U+2156" :> FDiv(F(2), F(5))) @@ ("U+2157" :> FDiv(F(3), F(5))) @@ ("U+2158" :> FDiv(F(4), F(5))) @@
    ("U+2159" :> FDiv(F(1), F(6))) @@ ("U+215A" :> FDiv(F(5), F(6))) @@ ("U+215B" :> FDiv(F(1), F(8))) @@
    ("U+215C" :> FDiv(F(3), F(8))) @@ ("U+215D" :> FDiv(F(5), F(8))) @@ ("U+215E" :> FDiv(F(7), F(8)))

\* map[key]: the Index implementation of HashMap panics on a missing key
MapIndex(map, key) == IF key \in DOMAIN map THEN Ok(map[key]) ELSE Panic

(***************************************************************************)
(* The extractor                                                           *)
(***************************************************************************)
Failed(r) == r.tag # "Ok"

\* the last element of a non-empty sequence
Last(q) == q[Len(q)]

\* the ? operator: an Err (or a panic) of r is what the caller returns, the
\* value of an Ok goes on into the rest of the caller, K
Try(r, K(_)) == IF Failed(r) THEN r ELSE K(r.val)

get_next_inner_pair(pair) ==
    IF Len(pair.kids) >= 1 THEN Ok(pair.kids[1]) ELSE Err(InnerRuleNoneError)

\* mutant of UnitType_parse: a unit of another rule is taken for an English one
UnitType_parse_default_english(pair) ==
    CASE pair.rule = "imprecise_unit" -> Ok("Imprecise")
      [] pair.rule = "metric_unit" -> Ok("Metric")
      [] OTHER -> Ok("English")

UnitType_parse(pair) ==
    CASE pair.rule = "imprecise_unit" -> Ok("Imprecise")
      [] pair.rule = "metric_unit" -> Ok("Metric")
      [] pair.rule = "english_unit" -> Ok("English")
      [] OTHER -> Err(WrongRule(pair, "unit_type"))

\* numbers[0] / numbers[1], an index out of bounds panics
divide_parts(numbers) ==
    IF Len(numbers) < 2 THEN Panic ELSE Ok(FDiv(numbers[1], numbers[2]))

\* collect::<Result<Vec<_>, _>>(): the first part that fails to parse is the error
RECURSIVE collect_parts(_, _)
collect_parts(parts, numbers) ==
    IF Len(parts) = 0 THEN Ok(numbers)
    ELSE Try(ParseF64(Head(parts)),
             LAMBDA v : collect_parts(Tail(parts), Append(numbers, v)))

parse_multicharacter_fraction(fraction) ==
    Try(collect_parts(SplitSlash(fraction, ""), <<>>), divide_parts)

parse_fraction(pair) ==
    CASE pair.rule = "multicharacter_fraction" -> parse_multicharacter_fraction(pair.text)
      [] pair.rule = "unicode_fraction" -> MapIndex(UNICODE_FRACTION_VALUE, pair.text)
      [] OTHER -> Err(WrongRule(pair, "fraction"))

\* Result::ok() inside the filter_map closure: an Err becomes None (the child
\* is dropped), a panic stays a panic
ok_of(r) ==
    CASE r.tag = "Ok" -> Ok(Some(r.val))
      [] r.tag = "Err" -> Ok(None)
      [] OTHER -> Panic

\* mutant of mixed_number_child: the fraction child is dropped like a separator
mixed_number_child_integer_only(x) ==
    CASE x.rule = "integer" -> ok_of(ParseF64(x.text))
      [] x.rule \in {"fraction", "separator"} -> Ok(None)
      [] OTHER -> Panic

\* the closure of the filter_map over the children of a mixed_number:
\* Ok(Some(v)) keeps v, Ok(None) drops the child
mixed_number_child(x) ==
    CASE x.rule = "integer" -> ok_of(ParseF64(x.text))
      [] x.rule = "fraction" ->
            IF Len(x.kids) >= 1 THEN ok_of(parse_fraction(x.kids[1])) ELSE Ok(None)
      [] x.rule = "separator" -> Ok(None)
      [] OTHER -> Panic

\* .sum() of the values the closure keeps, from 0.0
RECURSIVE mixed_number_sum(_, _)
mixed_number_sum(kids, acc) ==
    IF Len(kids) = 0 THEN Ok(acc)
    ELSE Try(mixed_number_child(Head(kids)),
             LAMBDA c : mixed_number_sum(Tail(kids),
                                         IF c = None THEN acc ELSE FAdd(acc, c[1])))

number_value(inner) == MapIndex(NUMBER_VALUE, Trim(inner.text))

parse_amount(pair) ==
    CASE pair.rule \in {"float", "integer"} -> ParseF64(pair.text)
      [] pair.rule = "fraction" -> Try(get_next_inner_pair(pair), parse_fraction)
      [] pair.rule = "mixed_number" -> mixed_number_sum(pair.kids, F(0))
      [] pair.rule = "number" -> Try(get_next_inner_pair(pair), number_value)
      [] OTHER -> Err(WrongRule(pair, "amount"))

\* parse_amount(get_next_inner_pair(pair)?)?
amount_of(pair) == Try(get_next_inner_pair(pair), parse_amount)

\* Quantity::default()
Quantity_default == [amount |-> F(0), unit |-> None, unit_type |-> None]

\* mutant of set_unit: the unit system is not recorded
set_unit_name_only(quantity, unit) ==
    Try(UnitType_parse(unit), LAMBDA ut :
    Try(get_next_inner_pair(unit), LAMBDA name :
    Ok([quantity EXCEPT !.unit = Some(name.rule)])))

\* the unit system comes from the rule of the unit's child, the unit's name is
\* the Debug name of the rule of that child's child
set_unit(quantity, unit) ==
    Try(UnitType_parse(unit), LAMBDA ut :
    Try(get_next_inner_pair(unit), LAMBDA name :
    Ok([quantity EXCEPT !.unit_type = Some(ut), !.unit = Some(name.rule)])))

\* mutant of attached_child: the amount inside a parenthesized_quantity child
\* is read like the node's own amount
attached_child_conversion(quantity, pair) ==
    CASE pair.rule = "amount" ->
            Try(amount_of(pair), LAMBDA a : Ok([quantity EXCEPT !.amount = a]))
      [] pair.rule = "unit" ->
            Try(get_next_inner_pair(pair), LAMBDA unit : set_unit(quantity, unit))
      [] pair.rule = "parenthesized_quantity" /\ Len(pair.kids) >= 2 ->
            Try(get_next_inner_pair(pair.kids[2]), LAMBDA inner :
            Try(amount_of(inner), LAMBDA a : Ok([quantity EXCEPT !.amount = a])))
      [] OTHER -> Ok(quantity)

\* one child of an amount_with_conversion / amount_with_attached_units node
attached_child(quantity, pair) ==
    CASE pair.rule = "amount" ->
            Try(amount_of(pair), LAMBDA a : Ok([quantity EXCEPT !.amount = a]))
      [] pair.rule = "unit" ->
            Try(get_next_inner_pair(pair), LAMBDA unit : set_unit(quantity, unit))
      [] OTHER -> Ok(quantity)

RECURSIVE attached_loop(_, _)
attached_loop(kids, quantity) ==
    IF Len(kids) = 0 THEN Ok(quantity)
    ELSE Try(attached_child(quantity, Head(kids)),
             LAMBDA q : attached_loop(Tail(kids), q))

\* mutant of scale: the amount is assigned, not multiplied
scale_assign(quantity, multiplier) == [quantity EXCEPT !.amount = multiplier]

\* quantity.amount *= multiplier
scale(quantity, multiplier) ==
    [quantity EXCEPT !.amount = FMul(quantity.amount, multiplier)]

\* mutant of imprecise: the amount stays the default
imprecise_default_amount(pair) ==
    Try(get_next_inner_pair(pair), LAMBDA unit : set_unit(Quantity_default, unit))

\* the Rule::amount_imprecise arm
imprecise(pair) ==
    Try(get_next_inner_pair(pair), LAMBDA unit :
    Try(set_unit(Quantity_default, unit), LAMBDA q :
    Ok([q EXCEPT !.amount = F(1)])))

RECURSIVE Quantity_parse(_)
RECURSIVE multiplier_loop(_, _, _)
\* the loop of the amount_with_multiplier arm over the locals quantity, multiplier
multiplier_loop(kids, quantity, multiplier) ==
    IF Len(kids) = 0 THEN Ok(quantity)
    ELSE CASE Head(kids).rule = "amount" ->
                Try(amount_of(Head(kids)),
                    LAMBDA a : multiplier_loop(Tail(kids), quantity, a))
           [] Head(kids).rule = "parenthesized_quantity" ->
                \* next().unwrap() twice: the second child is the quantity
                IF Len(Head(kids).kids) < 2 THEN Panic
                ELSE Try(Quantity_parse(Head(kids).kids[2]),
                         LAMBDA q : multiplier_loop(Tail(kids), scale(q, multiplier),
                                                    multiplier))
           [] OTHER -> multiplier_loop(Tail(kids), quantity, multiplier)

Quantity_parse(pair) ==
    CASE pair.rule \in {"amount_with_conversion", "amount_with_attached_units"} ->
            attached_loop(pair.kids, Quantity_default)
      [] pair.rule = "amount_with_multiplier" ->
            multiplier_loop(pair.kids, Quantity_default, F(1))
      [] pair.rule = "amount_imprecise" -> imprecise(pair)
      [] OTHER -> Err(WrongRule(pair, "quantity"))

\* Quantity { amount, ..Quantity::default() }
bare_quantity(a) == Ok([Quantity_default EXCEPT !.amount = a])

\* the match on the inner pair of a quantity_fragment
fragment_inner(quantity_fragment) ==
    CASE quantity_fragment.rule = "amount" -> Try(amount_of(quantity_fragment), bare_quantity)
      [] quantity_fragment.rule = "quantity" ->
            Try(get_next_inner_pair(quantity_fragment), Quantity_parse)
      [] OTHER -> Err(WrongRule(quantity_fragment, "quantity_fragment"))

\* the quantity of one quantity_fragment child of a multipart_quantity
fragment_quantity(pair) == Try(get_next_inner_pair(pair), fragment_inner)

\* mutant of push_quantity: the list is not emptied on a merge
push_quantity_keeps_bare(quantities, quantity) ==
    IF Len(quantities) >= 1 /\ quantities[1].unit = None
    THEN Append(quantities, scale(quantity, quantities[1].amount))
    ELSE Append(quantities, quantity)

\* mutant of push_quantity: any first entry merges, with or without a unit
push_quantity_any_first(quantities, quantity) ==
    IF Len(quantities) >= 1
    THEN <<scale(quantity, quantities[1].amount)>>
    ELSE Append(quantities, quantity)

\* mutant of push_quantity: the new quantity goes to the front of the list
push_quantity_front(quantities, quantity) ==
    IF Len(quantities) >= 1 /\ quantities[1].unit = None
    THEN <<scale(quantity, quantities[1].amount)>>
    ELSE <<quantity>> \o quantities

\* mutant of push_quantity: no merge, every quantity is appended
push_quantity_append(quantities, quantity) == Append(quantities, quantity)

\* mutant of push_quantity: the test and the merge look at the last entry, which
\* is the one removed
push_quantity_merge_last(quantities, quantity) ==
    IF Len(quantities) >= 1 /\ Last(quantities).unit = None
    THEN Append(SubSeq(quantities, 1, Len(quantities) - 1),
                scale(quantity, Last(quantities).amount))
    ELSE Append(quantities, quantity)

\* mutant of push_quantity: a bare amount does not merge into a bare amount
push_quantity_merge_unit_only(quantities, quantity) ==
    IF Len(quantities) >= 1 /\ quantities[1].unit = None /\ quantity.unit # None
    THEN <<scale(quantity, quantities[1].amount)>>
    ELSE Append(quantities, quantity)

\* the merge and the push: a first entry without a unit multiplies into the new
\* quantity and the list is emptied before the push
push_quantity(quantities, quantity) ==
    IF Len(quantities) >= 1 /\ quantities[1].unit = None
    THEN <<scale(quantity, quantities[1].amount)>>
    ELSE Append(quantities, quantity)

\* mutant of ingredient_name: "of" is stripped without looking at the blank
ingredient_name_of_any(text) ==
    IF Len(text) >= 3 /\ SubSeq(text, 1, 2) = "of"
    THEN SubSeq(text, 4, Len(text))
    ELSE text

\* mutant of ingredient_name: nothing is stripped
ingredient_name_raw(text) == text

\* the name recorded for an ingredient node
ingredient_name(text) ==
    IF Len(text) >= 3 /\ SubSeq(text, 1, 3) = "of "
    THEN SubSeq(text, 4, Len(text))
    ELSE text

(***************************************************************************)
(* Parse trees.  grammar.pest is not part of the sources at hand: the      *)
(* shapes below follow the grammar as the specification describes it and   *)
(* as the extractor and its tests read it.  The span of an inner node is   *)
(* the spans of its children joined by one blank.                          *)
(***************************************************************************)
RECURSIVE JoinText(_)
JoinText(kids) ==
    IF Len(kids) = 0 THEN ""
    ELSE LET rest == JoinText(Tail(kids))
         IN  IF Len(Head(kids).text) = 0 THEN rest
             ELSE IF Len(rest) = 0 THEN Head(kids).text
             ELSE Head(kids).text \o " " \o rest

Leaf(rule, text) == [rule |-> rule, text |-> text, kids |-> <<>>]
Node(rule, kids) == [rule |-> rule, text |-> JoinText(kids), kids |-> kids]

RECURSIVE IntText(_)
IntText(k) == IF k < 10 THEN Digits[k + 1] ELSE IntText(k \div 10) \o Digits[(k % 10) + 1]

Integer(k) == Leaf("integer", IntText(k))
Float(text) == Leaf("float", text)
Fraction(n, d) == Node("fraction", <<Leaf("multicharacter_fraction", IntText(n) \o "/" \o IntText(d))>>)
Glyph(g) == Node("fraction", <<Leaf("unicode_fraction", g)>>)
Separator(text) == Leaf("separator", text)
NumberWord(text) == Node("number", <<Leaf("number_word", text)>>)
Amount(inner) == Node("amount", <<inner>>)
Unit(system, name) == Node("unit", <<Node(system, <<Leaf(name, name)>>)>>)
Attached(amount, unit) == Node("amount_with_attached_units", <<amount, unit>>)
Parenthesized(q) == Node("parenthesized_quantity", <<Leaf("open", "("), q, Leaf("close", ")")>>)
Conversion(amount, unit, q) == Node("amount_with_conversion", <<amount, unit, Parenthesized(q)>>)
Multiplier(amount, q) == Node("amount_with_multiplier", <<amount, Parenthesized(q)>>)
Imprecise(name) == Node("amount_imprecise", <<Node("imprecise_unit", <<Leaf(name, name)>>)>>)
BareFragment(inner) == Node("quantity_fragment", <<Amount(inner)>>)
QuantityFragment(q) == Node("quantity_fragment", <<Node("quantity", <<q>>)>>)
IngredientNode(text) == Leaf("ingredient", text)

(***************************************************************************)
(* Bounds and the inputs drawn from them                                   *)
(***************************************************************************)
\* most children of one multipart_quantity
MaxFrags == 3
\* bare amounts are the integers 2..MaxBare
MaxBare == 3

RECURSIVE SeqsUpTo(_, _)
SeqsUpTo(S, n) ==
    IF n = 0 THEN {<<>>}
    ELSE LET shorter == SeqsUpTo(S, n - 1)
         IN  shorter \cup {Append(q, x) : q \in {t \in shorter : Len(t) = n - 1}, x \in S}

Ounce == Unit("english_unit", "ounce")
Pinch == Unit("imprecise_unit", "pinch")

\* fragments the grammar derives
GoodFragments ==
    {BareFragment(Integer(k)) : k \in 2..MaxBare}
    \cup {QuantityFragment(Attached(Amount(Integer(5)), Ounce)),
          QuantityFragment(Imprecise("pinch")),
          QuantityFragment(Multiplier(Amount(Integer(2)),
                                      Attached(Amount(Integer(7)), Ounce))),
          QuantityFragment(Conversion(Amount(Integer(1)), Unit("metric_unit", "gram"),
                                      Attached(Amount(Integer(3)), Pinch)))}

\* children of a multipart_quantity the extractor does not expect
BadFragments ==
    {Node("quantity_fragment", <<Ounce>>),
     Node("quantity_fragment", <<>>),
     BareFragment(Node("mixed_number", <<Integer(1), Leaf("float", ".5")>>)),
     Leaf("separator", " ")}

Fragments == GoodFragments \cup BadFragments

\* fragments in which a node the extractor reads a child of has none
MissingInnerFragments ==
    {BareFragment(Node("fraction", <<>>)),
     BareFragment(Node("mixed_number", <<Integer(1), Separator(" "), Node("fraction", <<>>)>>)),
     BareFragment(Node("number", <<>>)),
     Node("quantity_fragment", <<Node("amount", <<>>)>>),
     Node("quantity_fragment", <<Node("quantity", <<>>)>>),
     QuantityFragment(Node("amount_with_attached_units", <<Amount(Integer(5)), Node("unit", <<>>)>>)),
     QuantityFragment(Node("amount_with_attached_units",
                           <<Amount(Integer(5)), Node("unit", <<Leaf("english_unit", "cup")>>)>>)),
     QuantityFragment(Node("amount_imprecise", <<>>)),
     QuantityFragment(Node("amount_with_multiplier",
                           <<Amount(Integer(2)),
                             Node("parenthesized_quantity", <<Leaf("open", "(")>>)>>)),
     QuantityFragment(Node("amount_with_multiplier",
                           <<Amount(Integer(2)), Node("parenthesized_quantity", <<>>)>>))}

\* fragments holding a numeral text that str::parse::<f64> rejects
BadNumeralFragments ==
    {BareFragment(Leaf("integer", "x")),
     BareFragment(Leaf("float", ".")),
     BareFragment(Node("fraction", <<Leaf("multicharacter_fraction", "1/x")>>)),
     QuantityFragment(Attached(Amount(Leaf("integer", "x")), Ounce)),
     BareFragment(Node("mixed_number", <<Leaf("integer", "x"), Separator(" "), Fraction(1, 2)>>)),
     BareFragment(Node("mixed_number",
                       <<Integer(1), Separator(" "),
                         Node("fraction", <<Leaf("multicharacter_fraction", "1/x")>>)>>))}

\* fragments the grammar derives whose amount is zero or has a zero denominator
ZeroFragments ==
    {BareFragment(Integer(0)),
     BareFragment(Fraction(1, 0)),
     BareFragment(Fraction(0, 0)),
     BareFragment(Node("mixed_number", <<Integer(1), Separator(" "), Fraction(1, 0)>>)),
     QuantityFragment(Attached(Amount(Fraction(1, 0)), Ounce)),
     QuantityFragment(Multiplier(Amount(Integer(0)), Attached(Amount(Fraction(1, 0)), Ounce)))}

RareFragments == MissingInnerFragments \cup BadNumeralFragments \cup ZeroFragments

\* what stands before and after a rare fragment in its multipart_quantity
Neighbours ==
    {<<>>, <<BareFragment(Integer(2))>>,
     <<QuantityFragment(Attached(Amount(Integer(5)), Ounce))>>}

IngredientTexts == {"potatoes", "of potatoes", "of", "of ", "often"}

Tails ==
    {<<>>} \cup {<<IngredientNode(t)>> : t \in IngredientTexts}
    \cup {<<IngredientNode("salt"), Leaf("EOI", "")>>}

\* what follows a multipart_quantity of more than one child
ShortTails == {<<>>, <<IngredientNode("of potatoes")>>}

\* every tail alone and after a multipart_quantity of at most one child, the
\* short tails after the longer ones, and a rare fragment between neighbours
Inputs ==
    Tails
    \cup {<<Node("multipart_quantity", f)>> \o t : f \in SeqsUpTo(Fragments, 1), t \in Tails}
    \cup {<<Node("multipart_quantity", f)>> \o t :
                f \in SeqsUpTo(Fragments, MaxFrags), t \in ShortTails}
    \cup {<<Node("multipart_quantity", pre \o <<f>> \o post)>> :
                pre \in Neighbours, f \in RareFragments, post \in Neighbours}

(***************************************************************************)
(* Ingredient::parse_pairs as a state machine: one step per iteration of   *)
(* its loops.                                                              *)
(***************************************************************************)
VARIABLES
    pairs,       \* the Pairs handed to parse_pairs
    pc,          \* "top": in the loop over pairs; "frag": in the loop over the
                 \* children of pairs[i]; "done": parse_pairs has returned
    i,           \* index in pairs of the pair being visited
    j,           \* index in pairs[i].kids of the child being visited
    ingredient,  \* the local `ingredient` being built
    result       \* None while running, Some(Result<Ingredient, IngreedyError>)

vars == <<pairs, pc, i, j, ingredient, result>>

Init ==
    /\ pairs \in Inputs
    /\ pc = "top"
    /\ i = 1
    /\ j = 0
    /\ ingredient = [quantities |-> <<>>, ingredient |-> None]
    /\ result = None

\* Rule::multipart_quantity: enter the loop over its children
EnterMultipart ==
    /\ pc = "top" /\ i <= Len(pairs)
    /\ pairs[i].rule = "multipart_quantity"
    /\ pc' = "frag" /\ j' = 1
    /\ UNCHANGED <<pairs, i, ingredient, result>>

\* one quantity_fragment child: its quantity is merged and pushed, or the
\* call returns its error, or panics
VisitFragment ==
    /\ pc = "frag" /\ j <= Len(pairs[i].kids)
    /\ pairs[i].kids[j].rule = "quantity_fragment"
    /\ LET q == fragment_quantity(pairs[i].kids[j])
       IN  IF Failed(q)
           THEN /\ result' = Some(q) /\ pc' = "done"
                /\ UNCHANGED <<i, j, ingredient>>
           ELSE /\ ingredient' = [ingredient EXCEPT
                                    !.quantities = push_quantity(@, q.val)]
                /\ j' = j + 1
                /\ UNCHANGED <<pc, i, result>>
    /\ UNCHANGED pairs

\* a child of another rule is passed over
SkipChild ==
    /\ pc = "frag" /\ j <= Len(pairs[i].kids)
    /\ pairs[i].kids[j].rule # "quantity_fragment"
    /\ j' = j + 1
    /\ UNCHANGED <<pairs, pc, i, ingredient, result>>

LeaveMultipart ==
    /\ pc = "frag" /\ j > Len(pairs[i].kids)
    /\ pc' = "top" /\ i' = i + 1 /\ j' = 0
    /\ UNCHANGED <<pairs, ingredient, result>>

\* Rule::ingredient
VisitIngredient ==
    /\ pc = "top" /\ i <= Len(pairs)
    /\ pairs[i].rule = "ingredient"
    /\ ingredient' = [ingredient EXCEPT !.ingredient = Some(ingredient_name(pairs[i].text))]
    /\ i' = i + 1
    /\ UNCHANGED <<pairs, pc, j, result>>

\* a pair of any other rule is passed over
SkipPair ==
    /\ pc = "top" /\ i <= Len(pairs)
    /\ pairs[i].rule \notin {"multipart_quantity", "ingredient"}
    /\ i' = i + 1
    /\ UNCHANGED <<pairs, pc, j, ingredient, result>>

Return ==
    /\ pc = "top" /\ i > Len(pairs)
    /\ result' = Some(Ok(ingredient)) /\ pc' = "done"
    /\ UNCHANGED <<pairs, i, j, ingredient>>

Next ==
    \/ EnterMultipart
    \/ VisitFragment
    \/ SkipChild
    \/ LeaveMultipart
    \/ VisitIngredient
    \/ SkipPair
    \/ Return

Spec == Init /\ [][Next]_vars

(***************************************************************************)
(* parse_amount and Quantity::parse called on one node                     *)
(***************************************************************************)
\* integer texts, numerators and denominators are 0..MaxInt
MaxInt == 3

Fractions == {Fraction(n, d) : n \in 0..MaxInt, d \in 0..MaxInt}
Glyphs == {Glyph(g) : g \in DOMAIN UNICODE_FRACTION_VALUE}
Separators ==
    {<<>>, <<Separator(" ")>>, <<Separator("-")>>, <<Separator(" "), Separator("-")>>}
MixedNumbers ==
    {Node("mixed_number", <<Integer(k)>> \o seps \o <<f>>) :
        k \in 0..MaxInt, seps \in Separators, f \in Fractions \cup Glyphs}
NumberWords ==
    UNION {{NumberWord(w), NumberWord(w \o " "), NumberWord(" " \o w)} :
              w \in DOMAIN NUMBER_VALUE}

GoodAmounts ==
    {Integer(k) : k \in 0..MaxInt} \cup {Integer(12), Float(".25"), Float("1.5"), Float("2.")}
    \cup Fractions \cup Glyphs \cup MixedNumbers \cup NumberWords

\* nodes the grammar does not derive
BadAmounts ==
    {Leaf("integer", "x"), Leaf("integer", ""), Leaf("float", "."),
     Node("fraction", <<>>), Node("fraction", <<Integer(1)>>),
     Node("fraction", <<Leaf("multicharacter_fraction", "3")>>),
     Node("fraction", <<Leaf("multicharacter_fraction", "1/x")>>),
     Node("fraction", <<Leaf("unicode_fraction", "x")>>),
     Node("number", <<>>), NumberWord("dozen"), Leaf("unit", "cup"),
     Node("mixed_number", <<Integer(1), Float(".5")>>),
     Node("mixed_number", <<Integer(1), Node("fraction", <<>>)>>),
     Node("mixed_number", <<Integer(1), Node("fraction", <<Integer(2)>>)>>),
     Node("mixed_number", <<Leaf("integer", "x"), Separator(" "), Fraction(1, 2)>>),
     Node("mixed_number", <<Integer(1), Node("fraction", <<Leaf("unicode_fraction", "x")>>)>>)}

AmountNodes == GoodAmounts \cup BadAmounts

Units ==
    {Ounce, Pinch, Unit("english_unit", "cup"), Unit("metric_unit", "gram")}
QuantityAmounts ==
    {Amount(Integer(k)) : k \in 0..MaxInt}
    \cup {Amount(Fraction(1, 2)), Amount(Fraction(1, 0)), Amount(Glyph("U+00BD")),
          Amount(NumberWord("two")), Amount(Float("1.5")),
          Amount(Node("mixed_number", <<Integer(1), Separator(" "), Fraction(1, 2)>>))}
AttachedNodes == {Attached(a, u) : a \in QuantityAmounts, u \in Units}
ImpreciseNodes ==
    {Imprecise("pinch"), Imprecise("dash"),
     Node("amount_imprecise", <<Node("metric_unit", <<Leaf("gram", "g")>>)>>)}
ConversionNodes ==
    {Conversion(a, u, q) : a \in QuantityAmounts, u \in Units,
        q \in {Attached(Amount(Integer(3)), Pinch), Attached(Amount(Integer(7)), Ounce)}}
SimpleMultipliers ==
    {Multiplier(a, q) : a \in QuantityAmounts, q \in AttachedNodes \cup ImpreciseNodes}
NestedMultipliers ==
    {Multiplier(a, q) : a \in {Amount(Integer(2)), Amount(Integer(3))},
        q \in {Multiplier(Amount(Integer(2)), Attached(Amount(Integer(5)), Ounce)),
               Conversion(Amount(Integer(1)), Ounce, Attached(Amount(Integer(3)), Pinch))}}

GoodQuantities ==
    AttachedNodes \cup ImpreciseNodes \cup ConversionNodes
    \cup SimpleMultipliers \cup NestedMultipliers

\* nodes the grammar does not derive
BadQuantities ==
    {Leaf("quantity", "5"),
     Node("amount_with_attached_units", <<Amount(Integer(5))>>),
     Node("amount_with_attached_units", <<Amount(Integer(5)), Integer(6), Ounce>>),
     Node("amount_with_attached_units", <<Node("amount", <<>>), Ounce>>),
     Node("amount_with_attached_units", <<Amount(Leaf("unit", "cup")), Ounce>>),
     Node("amount_with_attached_units", <<Amount(Integer(5)), Node("unit", <<>>)>>),
     Node("amount_with_attached_units", <<Amount(Integer(5)), Unit("other_unit", "cup")>>),
     Node("amount_with_attached_units",
          <<Amount(Integer(5)), Node("unit", <<Leaf("english_unit", "cup")>>)>>),
     Node("amount_with_conversion", <<Amount(Integer(1)), Ounce, Amount(Integer(3)), Pinch>>),
     Node("amount_with_multiplier",
          <<Amount(Integer(2)), Node("parenthesized_quantity", <<Leaf("open", "(")>>)>>),
     Node("amount_with_multiplier",
          <<Parenthesized(Attached(Amount(Integer(5)), Ounce)), Amount(Integer(2))>>),
     Node("amount_with_multiplier",
          <<Amount(Integer(2)), Parenthesized(Leaf("quantity", "5"))>>),
     Node("amount_imprecise", <<>>),
     Node("amount_imprecise", <<Ounce>>)}

QuantityNodes == GoodQuantities \cup BadQuantities

\* one call of a function on the node pairs[1]; pc names the function
InitCall(entry, nodes) ==
    /\ pairs \in {<<node>> : node \in nodes}
    /\ pc = entry
    /\ i = 1
    /\ j = 0
    /\ ingredient = [quantities |-> <<>>, ingredient |-> None]
    /\ result = None

CallParseAmount ==
    /\ pc = "parse_amount"
    /\ result' = Some(parse_amount(pairs[1]))
    /\ pc' = "done"
    /\ UNCHANGED <<pairs, i, j, ingredient>>

CallQuantityParse ==
    /\ pc = "Quantity_parse"
    /\ result' = Some(Quantity_parse(pairs[1]))
    /\ pc' = "done"
    /\ UNCHANGED <<pairs, i, j, ingredient>>

InitAmount == InitCall("parse_amount", AmountNodes)
NextAmount == CallParseAmount
SpecAmount == InitAmount /\ [][NextAmount]_vars

InitQuantity == InitCall("Quantity_parse", QuantityNodes)
NextQuantity == CallQuantityParse
SpecQuantity == InitQuantity /\ [][NextQuantity]_vars

(***************************************************************************)
(* Properties                                                              *)
(***************************************************************************)
IsFragment(n) == n.rule = "quantity_fragment"
Q(amount, unit, unit_type) == [amount |-> amount, unit |-> unit, unit_type |-> unit_type]
QuantityOf(fragment) == fragment_quantity(fragment).val

\* parse_pairs returned a record
Returned == pc = "done" /\ result # None /\ result[1].tag = "Ok"
Record == result[1].val

\* the fragments of the multipart_quantity pairs before pairs[k]
RECURSIVE FragmentsBefore(_)
FragmentsBefore(k) ==
    IF k <= 1 THEN <<>>
    ELSE FragmentsBefore(k - 1) \o
         (IF pairs[k - 1].rule = "multipart_quantity"
          THEN SelectSeq(pairs[k - 1].kids, IsFragment) ELSE <<>>)

\* the run is at a point where every fragment visited so far gave a quantity
InRun == pc \in {"top", "frag"} \/ Returned
\* the fragments visited so far, and the list built from them
Processed ==
    IF pc = "frag"
    THEN FragmentsBefore(i) \o SelectSeq(SubSeq(pairs[i].kids, 1, j - 1), IsFragment)
    ELSE FragmentsBefore(IF pc = "top" THEN i ELSE Len(pairs) + 1)
Quantities == IF pc = "done" THEN Record.quantities ELSE ingredient.quantities

\* a successful VisitFragment step is being taken
FragmentStep == pc = "frag" /\ pc' = "frag" /\ j' = j + 1 /\ IsFragment(pairs[i].kids[j])

\* C1: merge rule. When a fragment is processed while the accumulated list is
\* exactly one entry without a unit, the list afterwards is the single new
\* quantity, its amount multiplied by the bare entry's amount, its unit and unit
\* system its own.
C1_MergeRule ==
    [][(/\ FragmentStep
        /\ Len(ingredient.quantities) = 1
        /\ ingredient.quantities[1].unit = None)
       => LET q == QuantityOf(pairs[i].kids[j])
          IN  ingredient'.quantities =
                  <<Q(FMul(q.amount, ingredient.quantities[1].amount), q.unit, q.unit_type)>>]_vars

\* bare 2 followed by 5 ounce has given the single quantity 10 ounce
C1_Witness ==
    /\ pc = "frag" /\ j = 3
    /\ pairs[i].kids[1] = BareFragment(Integer(2))
    /\ pairs[i].kids[2] = QuantityFragment(Attached(Amount(Integer(5)), Ounce))
    /\ ingredient.quantities = <<Q(F(10), Some("ounce"), Some("English"))>>

IsMultiplierShape(n) ==
    /\ n.rule = "amount_with_multiplier"
    /\ Len(n.kids) = 2
    /\ n.kids[1].rule = "amount"
    /\ n.kids[2].rule = "parenthesized_quantity"
    /\ Len(n.kids[2].kids) >= 2

\* C2: multiplier construct. For an amount_with_multiplier node with outer amount
\* m and parenthesized inner quantity q, Quantity::parse returns the amount
\* m * q.amount with the unit and the unit system of q.
C2_Multiplier ==
    (/\ pc = "done"
     /\ IsMultiplierShape(pairs[1])
     /\ ~Failed(amount_of(pairs[1].kids[1]))
     /\ ~Failed(Quantity_parse(pairs[1].kids[2].kids[2])))
    => LET m == amount_of(pairs[1].kids[1]).val
           q == Quantity_parse(pairs[1].kids[2].kids[2]).val
       IN  result = Some(Ok(Q(FMul(m, q.amount), q.unit, q.unit_type)))

\* 3 (2 ounce) has given 6 ounce, English
C2_Witness ==
    /\ pc = "done"
    /\ pairs[1] = Multiplier(Amount(Integer(3)), Attached(Amount(Integer(2)), Ounce))
    /\ result = Some(Ok(Q(F(6), Some("ounce"), Some("English"))))

\* C3: compound quantity without merge. While every fragment processed carries a
\* unit, the list holds one quantity per fragment, each the fragment's own
\* quantity, in the order of the fragments; so does the record returned.
C3_NoMerge ==
    (/\ InRun
     /\ \A k \in 1..Len(Processed) : QuantityOf(Processed[k]).unit # None)
    => Quantities = [k \in 1..Len(Processed) |-> QuantityOf(Processed[k])]

\* 5 ounce then pinch has returned two quantities
C3_Witness ==
    /\ Returned
    /\ Len(Processed) = 2
    /\ Record.quantities = <<Q(F(5), Some("ounce"), Some("English")),
                             Q(F(1), Some("pinch"), Some("Imprecise"))>>

\* an amount_with_conversion node as the grammar derives it: the first pair as
\* children, the conversion pair inside a parenthesized_quantity
IsConversionShape(n) ==
    /\ n.rule = "amount_with_conversion"
    /\ Len(n.kids) = 3
    /\ n.kids[1].rule = "amount"
    /\ n.kids[2].rule = "unit"
    /\ n.kids[3].rule = "parenthesized_quantity"

SystemOf(rule) ==
    CASE rule = "english_unit" -> "English"
      [] rule = "metric_unit" -> "Metric"
      [] rule = "imprecise_unit" -> "Imprecise"

\* C4: conversion discarding. For an amount_with_conversion node holding two
\* amount/unit pairs, the quantity returned has the amount and the unit of the
\* first pair; the conversion pair changes neither.
C4_ConversionDiscarded ==
    (pc = "done" /\ IsConversionShape(pairs[1]) /\ result[1].tag = "Ok")
    => LET n == pairs[1]
       IN  result[1].val = Q(amount_of(n.kids[1]).val,
                             Some(n.kids[2].kids[1].kids[1].rule),
                             Some(SystemOf(n.kids[2].kids[1].rule)))

\* 2 ounce (3 pinch) has given 2 ounce, English
C4_Witness ==
    /\ pc = "done"
    /\ pairs[1] = Conversion(Amount(Integer(2)), Ounce, Attached(Amount(Integer(3)), Pinch))
    /\ result = Some(Ok(Q(F(2), Some("ounce"), Some("English"))))

\* the quantity node holds a unit: an attached or conversion node with a unit
\* child, an imprecise node, or a multiplier around one of these
RECURSIVE UnitIn(_)
UnitIn(n) ==
    CASE n.rule \in {"amount_with_conversion", "amount_with_attached_units"} ->
            \E k \in 1..Len(n.kids) : n.kids[k].rule = "unit"
      [] n.rule = "amount_imprecise" -> TRUE
      [] n.rule = "amount_with_multiplier" ->
            /\ IsMultiplierShape(n)
            /\ UnitIn(n.kids[2].kids[2])
      [] OTHER -> FALSE

ContainsUnit(fragment) ==
    /\ Len(fragment.kids) >= 1
    /\ fragment.kids[1].rule = "quantity"
    /\ Len(fragment.kids[1].kids) >= 1
    /\ UnitIn(fragment.kids[1].kids[1])

\* C5: unit and unit_type are both present or both absent in every quantity of
\* the list and of the record returned; the quantity pushed for a fragment whose
\* node holds a unit has both present.
C5_UnitPair ==
    InRun =>
        /\ \A k \in 1..Len(Quantities) :
              (Quantities[k].unit = None) <=> (Quantities[k].unit_type = None)
        /\ (/\ pc = "frag" /\ j > 1
            /\ IsFragment(pairs[i].kids[j - 1])
            /\ ContainsUnit(pairs[i].kids[j - 1]))
           => /\ Last(ingredient.quantities).unit # None
              /\ Last(ingredient.quantities).unit_type # None

\* the fragment 2 (7 ounce) has just been pushed with both fields present
C5_Witness ==
    /\ pc = "frag" /\ j > 1
    /\ pairs[i].kids[j - 1] = QuantityFragment(Multiplier(Amount(Integer(2)),
                                                          Attached(Amount(Integer(7)), Ounce)))
    /\ Last(ingredient.quantities).unit = Some("ounce")
    /\ Last(ingredient.quantities).unit_type = Some("English")

\* the input line of a tree: the spans of its pairs
InputLine == JoinText(pairs)

\* the tree of a line without a quantity portion, as the grammar derives it: an
\* ingredient node spanning the line, after at most an empty multipart_quantity
NoQuantityInput ==
    /\ \E k \in 1..Len(pairs) : pairs[k].rule = "ingredient"
    /\ \A k \in 1..Len(pairs) :
          \/ pairs[k].rule = "ingredient" /\ pairs[k].text = InputLine
          \/ pairs[k].rule = "multipart_quantity" /\ pairs[k].kids = <<>>
          \/ pairs[k].rule = "EOI"

StartsWithOf(text) == Len(text) >= 3 /\ SubSeq(text, 1, 3) = "of "

\* C6 as stated: for every line without a quantity portion the record has no
\* quantity and the name is exactly the line.
C6_NameIsInput ==
    (pc = "done" /\ NoQuantityInput)
    => result = Some(Ok([quantities |-> <<>>, ingredient |-> Some(InputLine)]))

\* C6 amended: for every line without a quantity portion the record has no
\* quantity, and the name is the line without its leading "of " when it starts
\* with "of ", exactly the line otherwise.
C6_NameIsInputLessOf ==
    (pc = "done" /\ NoQuantityInput)
    => /\ Returned
       /\ Record.quantities = <<>>
       /\ Record.ingredient # None
       /\ IF StartsWithOf(InputLine)
          THEN "of " \o Record.ingredient[1] = InputLine
          ELSE Record.ingredient[1] = InputLine

\* the line "of potatoes" has given no quantity and the name "potatoes"
C6_Witness ==
    /\ pc = "done" /\ NoQuantityInput
    /\ InputLine = "of potatoes"
    /\ result = Some(Ok([quantities |-> <<>>, ingredient |-> Some("potatoes")]))

\* C7: ingredient name. In the record returned the name is the text of the
\* ingredient node with a leading "of " removed, the text itself when it does not
\* start with "of "; it is absent when the tree has no ingredient node.
C7_IngredientName ==
    Returned =>
        LET nodes == SelectSeq(pairs, LAMBDA n : n.rule = "ingredient")
        IN  IF Len(nodes) = 0 THEN Record.ingredient = None
            ELSE LET t == Last(nodes).text
                 IN  Record.ingredient =
                        Some(IF StartsWithOf(t) THEN SubSeq(t, 4, Len(t)) ELSE t)

\* a quantity followed by "of potatoes" has given the name "potatoes"
C7_Witness ==
    /\ Returned
    /\ Len(Record.quantities) >= 1
    /\ Len(pairs) = 2 /\ pairs[2] = IngredientNode("of potatoes")
    /\ Record.ingredient = Some("potatoes")

\* C8: imprecise amount. For an amount_imprecise node (a unit node and no
\* numeral) Quantity::parse returns the amount 1, the unit's name and the unit
\* system of the unit node.
C8_Imprecise ==
    (/\ pc = "done"
     /\ pairs[1].rule = "amount_imprecise"
     /\ Len(pairs[1].kids) = 1
     /\ pairs[1].kids[1].rule \in {"english_unit", "metric_unit", "imprecise_unit"}
     /\ Len(pairs[1].kids[1].kids) = 1)
    => result = Some(Ok(Q(F(1), Some(pairs[1].kids[1].kids[1].rule),
                          Some(SystemOf(pairs[1].kids[1].rule)))))

\* "pinch" has given 1 pinch, Imprecise
C8_Witness ==
    /\ pc = "done"
    /\ pairs[1] = Imprecise("pinch")
    /\ result = Some(Ok(Q(F(1), Some("pinch"), Some("Imprecise"))))

\* a mixed_number the grammar derives: an integer, separators, a fraction
IsMixedShape(n) ==
    /\ n.rule = "mixed_number"
    /\ Len(n.kids) >= 2
    /\ n.kids[1].rule = "integer" /\ ~Failed(parse_amount(n.kids[1]))
    /\ Last(n.kids).rule = "fraction" /\ ~Failed(parse_amount(Last(n.kids)))
    /\ \A k \in 2..(Len(n.kids) - 1) : n.kids[k].rule = "separator"

\* the value of a fraction node: numerator / denominator of a
\* multicharacter_fraction, the table value of a unicode_fraction
ValueOf(f) ==
    IF f.kids[1].rule = "unicode_fraction" THEN UNICODE_FRACTION_VALUE[f.kids[1].text]
    ELSE LET parts == SplitSlash(f.kids[1].text, "")
         IN  FDiv(ParseF64(parts[1]).val, ParseF64(parts[2]).val)

\* C9: mixed number. For a mixed_number with integer child i, separator children
\* and fraction child f, parse_amount returns i + value(f), value(f) being
\* numerator / denominator or the glyph's table value; the separators add nothing.
C9_MixedNumber ==
    (pc = "done" /\ IsMixedShape(pairs[1]))
    => result = Some(Ok(FAdd(ParseF64(pairs[1].kids[1].text).val,
                             ValueOf(Last(pairs[1].kids)))))

\* 1-1/2 has given 3/2
C9_Witness ==
    /\ pc = "done"
    /\ pairs[1] = Node("mixed_number", <<Integer(1), Separator("-"), Fraction(1, 2)>>)
    /\ result = Some(Ok([n |-> 3, d |-> 2]))

\* the fragment at pairs[i].kids[j] is a bare amount that is a mixed_number with
\* a child of a rule parse_amount does not expect there
MixedNumberWithWrongChild ==
    /\ i <= Len(pairs) /\ j >= 1 /\ j <= Len(pairs[i].kids)
    /\ LET f == pairs[i].kids[j]
       IN  /\ IsFragment(f) /\ Len(f.kids) >= 1
           /\ f.kids[1].rule = "amount" /\ Len(f.kids[1].kids) >= 1
           /\ f.kids[1].kids[1].rule = "mixed_number"
           /\ \E k \in 1..Len(f.kids[1].kids[1].kids) :
                 f.kids[1].kids[1].kids[k].rule \notin {"integer", "fraction", "separator"}

HasFragmentIn(S) ==
    /\ Len(pairs) >= 1 /\ pairs[1].rule = "multipart_quantity"
    /\ \E k \in 1..Len(pairs[1].kids) : pairs[1].kids[k] \in S

\* somewhere in the tree n a fraction, unit, amount or quantity_fragment has no
\* child, or a parenthesized_quantity has no second child
RECURSIVE LacksInner(_)
LacksInner(n) ==
    \/ n.rule \in {"fraction", "unit", "amount", "quantity_fragment"} /\ n.kids = <<>>
    \/ n.rule = "parenthesized_quantity" /\ Len(n.kids) < 2
    \/ \E k \in 1..Len(n.kids) : LacksInner(n.kids[k])

RECURSIVE NumeralFails(_)
NumeralFails(n) ==
    \/ n.rule \in {"integer", "float"} /\ Failed(ParseF64(n.text))
    \/ /\ n.rule = "multicharacter_fraction"
       /\ \E k \in 1..Len(SplitSlash(n.text, "")) : Failed(ParseF64(SplitSlash(n.text, "")[k]))
    \/ \E k \in 1..Len(n.kids) : NumeralFails(n.kids[k])

C13_FiniteAmounts ==
    Returned =>
        \A k \in 1..Len(Record.quantities) :
            /\ IsFinite(Record.quantities[k].amount)
            /\ Record.quantities[k].amount.n >= 0

IsUnit(n) == n.rule = "unit"
IsParenthesized(n) == n.rule = "parenthesized_quantity"

\* the quantity node n holds a unit token: the child of its last unit child, the
\* child of an amount_imprecise, or the unit token of the quantity inside the
\* parentheses of a multiplier
RECURSIVE HasUnitToken(_)
HasUnitToken(n) ==
    CASE n.rule \in {"amount_with_conversion", "amount_with_attached_units"} ->
            /\ SelectSeq(n.kids, IsUnit) # <<>>
            /\ Last(SelectSeq(n.kids, IsUnit)).kids # <<>>
      [] n.rule = "amount_imprecise" -> n.kids # <<>>
      [] n.rule = "amount_with_multiplier" ->
            /\ SelectSeq(n.kids, IsParenthesized) # <<>>
            /\ Len(Last(SelectSeq(n.kids, IsParenthesized)).kids) >= 2
            /\ HasUnitToken(Last(SelectSeq(n.kids, IsParenthesized)).kids[2])
      [] OTHER -> FALSE

RECURSIVE UnitToken(_)
UnitToken(n) ==
    CASE n.rule \in {"amount_with_conversion", "amount_with_attached_units"} ->
            Last(SelectSeq(n.kids, IsUnit)).kids[1]
      [] n.rule = "amount_imprecise" -> n.kids[1]
      [] n.rule = "amount_with_multiplier" ->
            UnitToken(Last(SelectSeq(n.kids, IsParenthesized)).kids[2])

UnitRules == {"imprecise_unit", "metric_unit", "english_unit"}

\* C14: unit system classification. The unit system of the quantity returned is
\* the one named by the rule of its unit token (imprecise_unit: Imprecise,
\* metric_unit: Metric, english_unit: English) and absent without a unit token;
\* a unit token of any other rule gives the WrongRule error and no quantity.
C14_UnitSystem ==
    pc = "done" =>
        /\ result[1].tag = "Ok" =>
              IF HasUnitToken(pairs[1])
              THEN /\ UnitToken(pairs[1]).rule \in UnitRules
                   /\ result[1].val.unit_type = Some(SystemOf(UnitToken(pairs[1]).rule))
              ELSE result[1].val.unit_type = None
        /\ (HasUnitToken(pairs[1]) /\ UnitToken(pairs[1]).rule \notin UnitRules)
           => result = Some(Err(WrongRule(UnitToken(pairs[1]), "unit_type")))

\* 2 gram has given the unit system Metric
C14_Witness ==
    /\ pc = "done"
    /\ pairs[1] = Attached(Amount(Integer(2)), Unit("metric_unit", "gram"))
    /\ result[1].tag = "Ok"
    /\ result[1].val.unit_type = Some("Metric")

\* C15: ordering. The entries of the list stand for the last fragments
\* processed, in the order of the fragments: entry k carries the unit of the
\* fragment k - Len(list) places before the end, and every entry after the first
\* is that fragment's own quantity; so does the record returned.
C15_Ordering ==
    (InRun /\ Len(Quantities) >= 1) =>
        LET n == Len(Processed)
            L == Len(Quantities)
        IN  /\ L <= n
            /\ \A k \in 1..L :
                  /\ Quantities[k].unit = QuantityOf(Processed[n - L + k]).unit
                  /\ Quantities[k].unit_type = QuantityOf(Processed[n - L + k]).unit_type
                  /\ k >= 2 => Quantities[k] = QuantityOf(Processed[n - L + k])

\* 2, 5 ounce, pinch has given 10 ounce before 1 pinch
C15_Witness ==
    /\ pc = "frag" /\ j = 4
    /\ pairs[i].kids[1] = BareFragment(Integer(2))
    /\ pairs[i].kids[2] = QuantityFragment(Attached(Amount(Integer(5)), Ounce))
    /\ pairs[i].kids[3] = QuantityFragment(Imprecise("pinch"))
    /\ ingredient.quantities = <<Q(F(10), Some("ounce"), Some("English")),
                                 Q(F(1), Some("pinch"), Some("Imprecise"))>>

\* the number of entries of the list without a unit
BareCount == Cardinality({k \in 1..Len(Quantities) : Quantities[k].unit = None})

\* the units of the fragments' own quantities
RECURSIVE UnitsOf(_)
UnitsOf(frags) ==
    IF frags = <<>> THEN <<>>
    ELSE <<QuantityOf(Head(frags)).unit>> \o UnitsOf(Tail(frags))

\* C17 as stated: after any prefix of the fragments the list holds at most one
\* quantity without a unit.
C17_AtMostOneBare == InRun => BareCount <= 1

\* C17 amended: while no fragment with a unit has been processed the list holds
\* at most one quantity without a unit (exactly one once a fragment has been
\* processed); from the first fragment with a unit on it holds one quantity
\* without a unit for every bare amount processed after that fragment.
C17_BareAfterUnit ==
    InRun =>
        LET units == UnitsOf(Processed)
            n == Len(units)
        IN  IF \A k \in 1..n : units[k] = None
            THEN BareCount = (IF n = 0 THEN 0 ELSE 1)
            ELSE BareCount =
                    Cardinality({k \in 1..n :
                                    /\ units[k] = None
                                    /\ \E m \in 1..(k - 1) : units[m] # None})

\* 5 ounce, 2, 3 has given three entries, two of them without a unit
C17_Witness ==
    /\ pc = "frag" /\ j = 4
    /\ pairs[i].kids[1] = QuantityFragment(Attached(Amount(Integer(5)), Ounce))
    /\ pairs[i].kids[2] = BareFragment(Integer(2))
    /\ pairs[i].kids[3] = BareFragment(Integer(3))
    /\ ingredient.quantities = <<Q(F(5), Some("ounce"), Some("English")),
                                 Q(F(2), None, None), Q(F(3), None, None)>>

\* C18: after any prefix of the fragments, a first entry without a unit is the
\* only entry of the list; so the test of the code (the first entry has no unit)
\* holds in exactly the states where the list is one entry without a unit.
C18_BareFirstIsAlone ==
    InRun =>
        /\ (Len(Quantities) >= 1 /\ Quantities[1].unit = None) => Len(Quantities) = 1
        /\ (Len(Quantities) >= 1 /\ Quantities[1].unit = None)
           <=> (Len(Quantities) = 1 /\ Quantities[1].unit = None)

\* 2, 3 has left the single entry 6 without a unit, 5 ounce is next
C18_Witness ==
    /\ pc = "frag" /\ j = 3 /\ Len(pairs[i].kids) = 3
    /\ pairs[i].kids[1] = BareFragment(Integer(2))
    /\ pairs[i].kids[2] = BareFragment(Integer(3))
    /\ pairs[i].kids[3] = QuantityFragment(Attached(Amount(Integer(5)), Ounce))
    /\ ingredient.quantities = <<Q(F(6), None, None)>>

\* C19: once the first entry of the list has a unit, a fragment only appends:
\* the list after the step is the list before it followed by the fragment's own
\* quantity, whether the fragment is bare or has a unit.
C19_OnlyAppends ==
    [][(/\ FragmentStep
        /\ Len(ingredient.quantities) >= 1
        /\ ingredient.quantities[1].unit # None)
       => ingredient'.quantities =
              Append(ingredient.quantities, QuantityOf(pairs[i].kids[j]))]_vars

\* 5 ounce, 2, pinch has given the three quantities unchanged
C19_Witness ==
    /\ pc = "frag" /\ j = 4
    /\ pairs[i].kids[1] = QuantityFragment(Attached(Amount(Integer(5)), Ounce))
    /\ pairs[i].kids[2] = BareFragment(Integer(2))
    /\ pairs[i].kids[3] = QuantityFragment(Imprecise("pinch"))
    /\ ingredient.quantities = <<Q(F(5), Some("ounce"), Some("English")),
                                 Q(F(2), None, None),
                                 Q(F(1), Some("pinch"), Some("Imprecise"))>>

\* the product of the amounts of the fragments' own quantities
RECURSIVE AmountProduct(_)
AmountProduct(frags) ==
    IF frags = <<>> THEN F(1)
    ELSE FMul(QuantityOf(Head(frags)).amount, AmountProduct(Tail(frags)))

\* the first m fragments processed are bare amounts
BareUpTo(m) == \A k \in 1..m : QuantityOf(Processed[k]).unit = None

\* C20: chained merge. Right after a fragment with amount a and unit u that
\* follows k >= 1 bare amounts b1..bk the list is the single quantity
\* (b1 * ... * bk * a, u); and the record returned for bare amounts b1..bk alone
\* holds the single quantity b1 * ... * bk without a unit.
C20_ChainedMerge ==
    InRun =>
        LET n == Len(Processed)
        IN  /\ (n >= 2 /\ BareUpTo(n - 1) /\ QuantityOf(Processed[n]).unit # None)
               => Quantities = <<Q(AmountProduct(Processed),
                                   QuantityOf(Processed[n]).unit,
                                   QuantityOf(Processed[n]).unit_type)>>
            /\ (Returned /\ n >= 1 /\ BareUpTo(n))
               => Record.quantities = <<Q(AmountProduct(Processed), None, None)>>

\* 2, 3, 5 ounce has given the single quantity 30 ounce
C20_Witness ==
    /\ pc = "frag" /\ j = 4
    /\ pairs[i].kids[1] = BareFragment(Integer(2))
    /\ pairs[i].kids[2] = BareFragment(Integer(3))
    /\ pairs[i].kids[3] = QuantityFragment(Attached(Amount(Integer(5)), Ounce))
    /\ ingredient.quantities = <<Q(F(30), Some("ounce"), Some("English"))>>

====
